---- MODULE Spec2Model ----
(***************************************************************************)
(* Model of package anneal (anneal.go): the Schedule record and the        *)
(* function Anneal, one action per statement group of Anneal.              *)
(*                                                                         *)
(* float64 is modelled as a small IEEE-like format: a value is NaN, +Inf,  *)
(* -Inf or a finite fixed-point number n/Scale with |n| <= MaxFin.         *)
(* Arithmetic rounds to the nearest representable value, overflows to an   *)
(* infinity and underflows to zero, and the special values propagate as    *)
(* IEEE 754 prescribes.  Every zero that Anneal can produce from integer   *)
(* energies and positive Ti, Tf is a positive zero, so zero is unsigned.   *)
(*                                                                         *)
(* A State is an opaque object; each call of Neighbor() returns a fresh    *)
(* object, identified by its allocation index (the input State is 0).      *)
(* Energy() of an object is whatever the caller's implementation returns:  *)
(* any member of Energies.                                                 *)
(***************************************************************************)
EXTENDS Integers, Sequences, FiniteSets

\* ---------------------------------------------------------------- bounds
MaxIter == 3
MaxEnergy == 2
Scale == 100

MaxFin == 4 * Scale * Scale
Energies == (0 - 1) .. MaxEnergy
Rands == {0, Scale \div 2, Scale - 1}
NoState == 0 - 1

\* ------------------------------------------------------- float64 values
\* The operations are functions, so that an argument is evaluated once.
Float == [cls : {"nan", "pinf", "ninf", "fin"}, n : Int]
NaN == [cls |-> "nan", n |-> 0]
PInf == [cls |-> "pinf", n |-> 0]
NInf == [cls |-> "ninf", n |-> 0]
Fin(m) == [cls |-> "fin", n |-> m]

Abs(m) == IF m < 0 THEN 0 - m ELSE m
Sgn(m) == IF m < 0 THEN 0 - 1 ELSE IF m > 0 THEN 1 ELSE 0

Mk[m \in Int] == IF m > MaxFin THEN PInf ELSE IF m < 0 - MaxFin THEN NInf ELSE Fin(m)
SgnF(x) == IF x.cls = "pinf" THEN 1 ELSE IF x.cls = "ninf" THEN 0 - 1 ELSE Sgn(x.n)
InfOf(sg) == IF sg > 0 THEN PInf ELSE NInf
IsInf(x) == x.cls \in {"pinf", "ninf"}
Val(x) == IF x.cls = "pinf" THEN MaxFin + 1 ELSE IF x.cls = "ninf" THEN 0 - (MaxFin + 1) ELSE x.n

QMul[a \in Int, b \in Int] == Sgn(a) * Sgn(b) * ((Abs(a) * Abs(b) + Scale \div 2) \div Scale)
QDiv[a \in Int, b \in Int] == Sgn(a) * Sgn(b) * ((Abs(a) * Scale + Abs(b) \div 2) \div Abs(b))

\* float64(m)
FromInt[m \in Int] == Mk[m * Scale]

FNeg[x \in Float] ==
  IF x.cls = "nan" THEN NaN
  ELSE IF x.cls = "pinf" THEN NInf
  ELSE IF x.cls = "ninf" THEN PInf
  ELSE Fin(0 - x.n)

FSub[a \in Float, b \in Float] ==
  IF a.cls = "nan" \/ b.cls = "nan" THEN NaN
  ELSE IF IsInf(a) /\ IsInf(b) THEN (IF a.cls = b.cls THEN NaN ELSE a)
  ELSE IF IsInf(a) THEN a
  ELSE IF IsInf(b) THEN FNeg[b]
  ELSE Mk[a.n - b.n]

FMul[a \in Float, b \in Float] ==
  IF a.cls = "nan" \/ b.cls = "nan" THEN NaN
  ELSE IF IsInf(a) \/ IsInf(b)
    THEN (IF SgnF(a) * SgnF(b) = 0 THEN NaN ELSE InfOf(SgnF(a) * SgnF(b)))
  ELSE Mk[QMul[a.n, b.n]]

FDiv[a \in Float, b \in Float] ==
  IF a.cls = "nan" \/ b.cls = "nan" THEN NaN
  ELSE IF IsInf(a) /\ IsInf(b) THEN NaN
  ELSE IF IsInf(a) THEN InfOf(SgnF(a) * (IF SgnF(b) < 0 THEN 0 - 1 ELSE 1))
  ELSE IF IsInf(b) THEN Fin(0)
  ELSE IF b.n = 0 THEN (IF a.n = 0 THEN NaN ELSE InfOf(Sgn(a.n)))
  ELSE Mk[QDiv[a.n, b.n]]

FLt[a \in Float, b \in Float] == a.cls # "nan" /\ b.cls # "nan" /\ Val(a) < Val(b)
FGt[a \in Float, b \in Float] == FLt[b, a]
FLe[a \in Float, b \in Float] == a.cls # "nan" /\ b.cls # "nan" /\ Val(a) <= Val(b)

\* ---------------------------------------------------- math.Exp, math.Log
EulerE == (2718 * Scale) \div 1000
Ln2 == (693 * Scale) \div 1000

\* one more factor of e, saturating just above MaxFin
PowStep[h \in Int] == IF h > MaxFin THEN h ELSE QMul[h, EulerE]

\* e^q for a natural q
PowE[q \in Nat] == IF q = 0 THEN Scale ELSE PowStep[PowE[q - 1]]

\* e^(f/Scale) for 0 <= f < Scale, by the Taylor series
ExpFrac[f \in Int] ==
  LET t1 == f
      t2 == QMul[t1, f] \div 2
      t3 == QMul[t2, f] \div 3
      t4 == QMul[t3, f] \div 4
      t5 == QMul[t4, f] \div 5
  IN Scale + t1 + t2 + t3 + t4 + t5

\* h * e^(f/Scale), h saturated
ExpJoin[h \in Int, f \in Int] == IF h > MaxFin THEN h ELSE QMul[h, ExpFrac[f]]

\* e^(m/Scale) for m >= 0; a result above MaxFin stands for overflow
ExpPos[m \in Nat] == ExpJoin[PowE[m \div Scale], m % Scale]

\* 1/d, d saturated
Recip[d \in Int] == IF d > MaxFin THEN Fin(0) ELSE Fin(QDiv[Scale, d])

FExp[x \in Float] ==
  IF x.cls = "nan" THEN NaN
  ELSE IF x.cls = "pinf" THEN PInf
  ELSE IF x.cls = "ninf" THEN Fin(0)
  ELSE IF x.n >= 0 THEN Mk[ExpPos[x.n]]
  ELSE Recip[ExpPos[0 - x.n]]

\* 2 * (y + y^3/3 + y^5/5)
AtanhSeries[y \in Int] ==
  LET y2 == QMul[y, y]
      y3 == QMul[y, y2]
      y5 == QMul[y3, y2]
  IN 2 * (y + y3 \div 3 + y5 \div 5)

\* ln(m/Scale) for Scale <= m < 2*Scale, as 2*atanh((x-1)/(x+1))
LnMant[m \in Int] == AtanhSeries[QDiv[m - Scale, m + Scale]]

\* ln(m/Scale) for m > 0, reducing m into [Scale, 2*Scale) by powers of two
LnPos[m \in Int] ==
  IF m >= 2 * Scale THEN Ln2 + LnPos[m \div 2]
  ELSE IF m < Scale THEN LnPos[2 * m] - Ln2
  ELSE LnMant[m]

FLog[x \in Float] ==
  IF x.cls = "nan" \/ x.cls = "ninf" THEN NaN
  ELSE IF x.cls = "pinf" THEN PInf
  ELSE IF x.n < 0 THEN NaN
  ELSE IF x.n = 0 THEN NInf
  ELSE Fin(LnPos[x.n])

\* ------------------------------------------------------------- Schedule
\* The Ti and Tf a caller passes: positive, Ti >= Tf (Ti = Tf makes k infinite)
TiChoices == {Fin(Scale), Fin(2 * Scale)}
TfChoices == {Fin(Scale \div 2), Fin(Scale)}
Schedule == [Iter : 0 .. MaxIter, Ti : TiChoices, Tf : TfChoices]

\* --------------------------------------------------------------- Anneal
VARIABLES
  pc,             \* position in Anneal
  sch,            \* the *Schedule argument
  s, e,           \* working State and its energy
  sbest, ebest,   \* best State and its energy
  T0, k,          \* initial temperature and decay constant
  i,              \* loop counter
  snew, enew,     \* candidate of the current iteration and its energy
  T, p,           \* temperature and acceptance probability of the current iteration
  r,              \* value returned by rand.Float64() in the current iteration
  ret,            \* the State returned
  nalloc,         \* number of State objects in existence
  energyOf,       \* energyOf[x + 1]: what Energy() returned for object x
  neighborCalls,  \* calls of Neighbor() so far
  energyCalls,    \* calls of Energy() so far
  randDraws,      \* calls of rand.Float64() so far
  nonImproving,   \* candidates evaluated so far with not (enew < e)
  lastNeighborOn, \* receiver of the latest Neighbor() call
  lastEnergyOn    \* receiver of the latest Energy() call

locals == <<s, e, sbest, ebest, T0, k, i, snew, enew, T, p, r, ret>>
calls == <<nalloc, energyOf, neighborCalls, energyCalls, randDraws, nonImproving,
           lastNeighborOn, lastEnergyOn>>
vars == <<pc, sch, locals, calls>>

Init ==
  /\ pc = "start"
  /\ sch \in Schedule
  /\ s = 0
  /\ e = Fin(0)
  /\ sbest = NoState
  /\ ebest = Fin(0)
  /\ T0 = Fin(0)
  /\ k = Fin(0)
  /\ i = 0
  /\ snew = NoState
  /\ enew = Fin(0)
  /\ T = Fin(0)
  /\ p = Fin(0)
  /\ r = Fin(0)
  /\ ret = NoState
  /\ nalloc = 1
  /\ energyOf = <<>>
  /\ neighborCalls = 0
  /\ energyCalls = 0
  /\ randDraws = 0
  /\ nonImproving = 0
  /\ lastNeighborOn = NoState
  /\ lastEnergyOn = NoState

\* T := T0 * math.Exp(-float64(i)/k)
Temperature(t0, it, kk) == FMul[t0, FExp[FDiv[FNeg[FromInt[it]], kk]]]

\* slip: the working energy is not subtracted
AcceptProbNoBase(en, ec, tc) == FExp[FDiv[FNeg[en], tc]]

\* p := math.Exp(-(enew - e) / T)
AcceptProb(en, ec, tc) == FExp[FDiv[FNeg[FSub[en, ec]], tc]]

\* slip: >= in place of >
RejectsGe(rv, pr) == FLe[pr, rv]

\* rand.Float64() > p
Rejects(rv, pr) == FGt[rv, pr]

\* slip: ebest left at its zero value
BeginZeroBest ==
  /\ pc = "start"
  /\ \E en \in Energies :
       /\ e' = FromInt[en]
       /\ T0' = FMul[FromInt[en], sch.Ti]
       /\ energyOf' = Append(energyOf, FromInt[en])
  /\ ebest' = Fin(0)
  /\ sbest' = s
  /\ k' = FDiv[FromInt[sch.Iter], FLog[FDiv[sch.Ti, sch.Tf]]]
  /\ i' = 0
  /\ energyCalls' = energyCalls + 1
  /\ lastEnergyOn' = s
  /\ pc' = "loop"
  /\ UNCHANGED <<sch, s, snew, enew, T, p, r, ret, nalloc, neighborCalls, randDraws,
                 nonImproving, lastNeighborOn>>

\* e := s.Energy(); sbest, ebest := s, e; T0 = ...; k = ...; i := 0
Begin ==
  /\ pc = "start"
  /\ \E en \in Energies :
       /\ e' = FromInt[en]
       /\ ebest' = FromInt[en]
       /\ T0' = FMul[FromInt[en], sch.Ti]
       /\ energyOf' = Append(energyOf, FromInt[en])
  /\ sbest' = s
  /\ k' = FDiv[FromInt[sch.Iter], FLog[FDiv[sch.Ti, sch.Tf]]]
  /\ i' = 0
  /\ energyCalls' = energyCalls + 1
  /\ lastEnergyOn' = s
  /\ pc' = "loop"
  /\ UNCHANGED <<sch, s, snew, enew, T, p, r, ret, nalloc, neighborCalls, randDraws,
                 nonImproving, lastNeighborOn>>

\* i < sch.Iter
LoopTest ==
  /\ pc = "loop"
  /\ pc' = IF i < sch.Iter THEN "neighbor" ELSE "return"
  /\ UNCHANGED <<sch, locals, calls>>

\* snew := s.Neighbor()
CallNeighbor ==
  /\ pc = "neighbor"
  /\ snew' = nalloc
  /\ nalloc' = nalloc + 1
  /\ neighborCalls' = neighborCalls + 1
  /\ lastNeighborOn' = s
  /\ pc' = "energy"
  /\ UNCHANGED <<sch, s, e, sbest, ebest, T0, k, i, enew, T, p, r, ret, energyOf,
                 energyCalls, randDraws, nonImproving, lastEnergyOn>>

\* enew := snew.Energy()
CallEnergy ==
  /\ pc = "energy"
  /\ \E en \in Energies :
       /\ enew' = FromInt[en]
       /\ energyOf' = Append(energyOf, FromInt[en])
       /\ nonImproving' = nonImproving + (IF FLt[FromInt[en], e] THEN 0 ELSE 1)
  /\ energyCalls' = energyCalls + 1
  /\ lastEnergyOn' = snew
  /\ pc' = "branch"
  /\ UNCHANGED <<sch, s, e, sbest, ebest, T0, k, i, snew, T, p, r, ret, nalloc,
                 neighborCalls, randDraws, lastNeighborOn>>

\* slip: the inner comparison reversed (ebest < enew)
ImproveReversed ==
  /\ pc = "branch"
  /\ FLt[enew, e]
  /\ IF FLt[ebest, enew]
       THEN sbest' = snew /\ ebest' = enew
       ELSE UNCHANGED <<sbest, ebest>>
  /\ pc' = "adopt"
  /\ UNCHANGED <<sch, s, e, T0, k, i, snew, enew, T, p, r, ret, calls>>

\* slip: the random source is consulted before the branch, on every candidate
ImproveDraws ==
  /\ pc = "branch"
  /\ FLt[enew, e]
  /\ IF FLt[enew, ebest]
       THEN sbest' = snew /\ ebest' = enew
       ELSE UNCHANGED <<sbest, ebest>>
  /\ \E x \in Rands : r' = Fin(x)
  /\ randDraws' = randDraws + 1
  /\ pc' = "adopt"
  /\ UNCHANGED <<sch, s, e, T0, k, i, snew, enew, T, p, ret, nalloc, energyOf,
                 neighborCalls, energyCalls, nonImproving, lastNeighborOn,
                 lastEnergyOn>>

\* if enew < e { if enew < ebest { sbest, ebest = snew, enew } }
Improve ==
  /\ pc = "branch"
  /\ FLt[enew, e]
  /\ IF FLt[enew, ebest]
       THEN sbest' = snew /\ ebest' = enew
       ELSE UNCHANGED <<sbest, ebest>>
  /\ pc' = "adopt"
  /\ UNCHANGED <<sch, s, e, T0, k, i, snew, enew, T, p, r, ret, calls>>

\* else { T := ...; p := ...; rand.Float64()
Draw ==
  /\ pc = "branch"
  /\ ~FLt[enew, e]
  /\ T' = Temperature(T0, i, k)
  /\ p' = AcceptProb(enew, e, T')
  /\ \E x \in Rands : r' = Fin(x)
  /\ randDraws' = randDraws + 1
  /\ pc' = "test"
  /\ UNCHANGED <<sch, s, e, sbest, ebest, T0, k, i, snew, enew, ret, nalloc,
                 energyOf, neighborCalls, energyCalls, nonImproving,
                 lastNeighborOn, lastEnergyOn>>

\* slip: continue without the loop's post statement, so the iteration repeats
RejectRetry ==
  /\ pc = "test"
  /\ Rejects(r, p)
  /\ pc' = "loop"
  /\ UNCHANGED <<sch, locals, calls>>

\* rand.Float64() > p { continue }; i++
Reject ==
  /\ pc = "test"
  /\ Rejects(r, p)
  /\ i' = i + 1
  /\ pc' = "loop"
  /\ UNCHANGED <<sch, s, e, sbest, ebest, T0, k, snew, enew, T, p, r, ret, calls>>

\* slip: an accepted candidate is also recorded as the best
AcceptTracksBest ==
  /\ pc = "test"
  /\ ~Rejects(r, p)
  /\ sbest' = snew
  /\ ebest' = enew
  /\ pc' = "adopt"
  /\ UNCHANGED <<sch, s, e, T0, k, i, snew, enew, T, p, r, ret, calls>>

\* not (rand.Float64() > p): leave the else block
Accept ==
  /\ pc = "test"
  /\ ~Rejects(r, p)
  /\ pc' = "adopt"
  /\ UNCHANGED <<sch, locals, calls>>

\* slip: the energy of the adopted State is evaluated again
AdoptReevaluate ==
  /\ pc = "adopt"
  /\ s' = snew
  /\ e' = enew
  /\ i' = i + 1
  /\ energyCalls' = energyCalls + 1
  /\ lastEnergyOn' = snew
  /\ pc' = "loop"
  /\ UNCHANGED <<sch, sbest, ebest, T0, k, snew, enew, T, p, r, ret, nalloc, energyOf,
                 neighborCalls, randDraws, nonImproving, lastNeighborOn>>

\* s, e = snew, enew; i++
Adopt ==
  /\ pc = "adopt"
  /\ s' = snew
  /\ e' = enew
  /\ i' = i + 1
  /\ pc' = "loop"
  /\ UNCHANGED <<sch, sbest, ebest, T0, k, snew, enew, T, p, r, ret, calls>>

\* slip: the working State is returned
ReturnWorking ==
  /\ pc = "return"
  /\ ret' = s
  /\ pc' = "done"
  /\ UNCHANGED <<sch, s, e, sbest, ebest, T0, k, i, snew, enew, T, p, r, calls>>

\* return sbest
Return ==
  /\ pc = "return"
  /\ ret' = sbest
  /\ pc' = "done"
  /\ UNCHANGED <<sch, s, e, sbest, ebest, T0, k, i, snew, enew, T, p, r, calls>>

Next ==
  \/ Begin
  \/ LoopTest
  \/ CallNeighbor
  \/ CallEnergy
  \/ Improve
  \/ Draw
  \/ Reject
  \/ Accept
  \/ Adopt
  \/ Return

Spec == Init /\ [][Next]_vars

\* Anneal runs on the caller's thread with nothing to block it: every
\* enabled statement is eventually executed.
FairSpec == Spec /\ WF_vars(Next)

TypeOK ==
  /\ pc \in {"start", "loop", "neighbor", "energy", "branch", "test", "adopt", "return", "done"}
  /\ i \in 0 .. MaxIter
  /\ e.cls = "fin" /\ ebest.cls = "fin" /\ enew.cls = "fin"

\* ============================================================== claims
EnergyEval(x) == energyOf[x + 1]

\* C1: the State returned has the lowest energy of all States encountered:
\* the input State and every candidate Neighbor produced, rejected ones included.
ReturnsLowestEncountered ==
  pc = "done" =>
    /\ Len(energyOf) = sch.Iter + 1
    /\ \A j \in 1 .. Len(energyOf) : FLe[EnergyEval(ret), energyOf[j]]

\* a run has returned a candidate that is not the final working State, and
\* some candidate of the run was rejected
ReturnsLowestEncounteredWitness ==
  /\ pc = "done"
  /\ ret # 0
  /\ ret # s
  /\ \E j \in 2 .. Len(energyOf) : j - 1 # s /\ FLt[EnergyEval(ret), energyOf[j]]

\* C2: the energy of the State returned is at most the energy of the input State.
ReturnedNotWorseThanInitial ==
  pc = "done" => FLe[EnergyEval(ret), EnergyEval(0)]

\* a run has returned a State strictly better than its input while the final
\* working State is worse than the input
ReturnedNotWorseThanInitialWitness ==
  /\ pc = "done"
  /\ FLt[EnergyEval(ret), EnergyEval(0)]
  /\ FLt[EnergyEval(0), e]

\* the calls made by each position of the loop body
IterationShape ==
  /\ pc \in {"loop", "neighbor", "return", "done"} =>
       /\ i <= sch.Iter
       /\ neighborCalls = i
       /\ nalloc = i + 1
       /\ Len(energyOf) = i + 1
  /\ pc \in {"return", "done"} => i = sch.Iter
  /\ pc = "energy" =>
       /\ i < sch.Iter
       /\ neighborCalls = i + 1
       /\ lastNeighborOn = s
       /\ Len(energyOf) = i + 1
  /\ pc \in {"branch", "test", "adopt"} =>
       /\ i < sch.Iter
       /\ neighborCalls = i + 1
       /\ Len(energyOf) = i + 2
       /\ lastEnergyOn = snew

\* C3: Anneal terminates, after exactly sch.Iter iterations; every iteration
\* calls Neighbor once on the working State and then Energy once on the
\* candidate, whichever way the acceptance test goes.
ExactlyIterIterations == <>(pc = "done" /\ i = sch.Iter) /\ []IterationShape

\* a run of more than one iteration has ended after both improving and
\* non-improving candidates
ExactlyIterIterationsWitness ==
  /\ pc = "done"
  /\ sch.Iter > 1
  /\ nonImproving > 0
  /\ nonImproving < sch.Iter

\* C4 as stated: Energy and Neighbor are called only inside the loop, once
\* each per iteration, 2 * sch.Iter calls in all.
CallsTwiceIter ==
  pc = "done" => neighborCalls + energyCalls = 2 * sch.Iter

\* C4 amended: Neighbor is called once per iteration; Energy is called once
\* on the input State before the loop and once per iteration on the candidate.
CallsTwiceIterPlusOne ==
  /\ pc = "start" => neighborCalls = 0 /\ energyCalls = 0
  /\ pc = "loop" => neighborCalls = i /\ energyCalls = i + 1
  /\ pc = "done" => neighborCalls = sch.Iter /\ energyCalls = sch.Iter + 1

CallsTwiceIterPlusOneWitness ==
  /\ pc = "done"
  /\ sch.Iter > 0
  /\ neighborCalls + energyCalls = 2 * sch.Iter + 1

\* C5: a candidate whose energy equals the working energy is never rejected:
\* the acceptance test sends it on to be adopted, and it becomes the working
\* State.
EqualEnergyAccepted ==
  [][/\ (pc = "test" /\ enew = e) => pc' = "adopt"
     /\ (pc = "adopt" /\ enew = e) => (s' = snew /\ e' = enew)]_vars

\* an equal-energy candidate passed the test against the largest draw
EqualEnergyAcceptedWitness ==
  /\ pc = "adopt"
  /\ i = 0
  /\ enew = e
  /\ r = Fin(Scale - 1)

\* C7: the random source is consulted once for every candidate that is not
\* improving and never for an improving one.
DrawsEqualNonImproving ==
  /\ randDraws = nonImproving - (IF pc = "branch" /\ ~FLt[enew, e] THEN 1 ELSE 0)
  /\ pc = "test" => ~FLt[enew, e]

DrawsEqualNonImprovingWitness ==
  /\ pc = "done"
  /\ randDraws > 0
  /\ randDraws < sch.Iter

\* C8: sbest and ebest change only at an improving candidate that is strictly
\* better than the best so far, and then become snew and enew.
BestChangesOnlyOnNewBest ==
  [][pc # "start" =>
       IF pc = "branch" /\ FLt[enew, e] /\ FLt[enew, ebest]
         THEN sbest' = snew /\ ebest' = enew
         ELSE UNCHANGED <<sbest, ebest>>]_vars

\* a candidate other than the first has just become the best
BestChangesOnlyOnNewBestWitness ==
  /\ pc = "adopt"
  /\ i > 0
  /\ sbest = snew

\* C9 as stated: the working pair moves to the candidate when enew < e, or
\* when enew >= e and r <= p; it stays when enew >= e and r > p; nothing else
\* changes it; e is the energy evaluated for s.
ThreeEdgesLeP ==
  /\ [](pc # "start" => e = EnergyEval(s))
  /\ [][/\ (pc = "branch" /\ FLt[enew, e]) => pc' = "adopt"
        /\ (pc = "branch" /\ ~FLt[enew, e]) => pc' = "test"
        /\ (pc = "test" /\ FLe[r, p]) => pc' = "adopt"
        /\ (pc = "test" /\ FGt[r, p]) => (pc' = "loop" /\ UNCHANGED <<s, e>>)
        /\ (pc = "test" /\ pc' = "adopt") => FLe[r, p]
        /\ pc = "adopt" => (s' = snew /\ e' = enew)
        /\ pc \notin {"start", "adopt"} => UNCHANGED <<s, e>>]_vars

\* C9 amended: as above, with the accepting edge taken whenever r > p is
\* false, that is when r <= p or p is NaN.
ThreeEdgesNotGtP ==
  /\ [](pc # "start" => e = EnergyEval(s))
  /\ [][/\ (pc = "branch" /\ FLt[enew, e]) => pc' = "adopt"
        /\ (pc = "branch" /\ ~FLt[enew, e]) => pc' = "test"
        /\ (pc = "test" /\ ~FGt[r, p]) => pc' = "adopt"
        /\ (pc = "test" /\ FGt[r, p]) => (pc' = "loop" /\ UNCHANGED <<s, e>>)
        /\ (pc = "test" /\ pc' = "adopt") => (FLe[r, p] \/ p = NaN)
        /\ pc = "adopt" => (s' = snew /\ e' = enew)
        /\ pc \notin {"start", "adopt"} => UNCHANGED <<s, e>>]_vars

\* a candidate was accepted on a NaN acceptance probability
ThreeEdgesNotGtPWitness ==
  /\ pc = "adopt"
  /\ ~FLt[enew, e]
  /\ p = NaN

\* C10: ebest <= e and ebest is the energy evaluated for sbest, throughout
\* the loop; ebest never increases.
BestBelowWorking ==
  /\ [](pc # "start" => FLe[ebest, e] /\ ebest = EnergyEval(sbest))
  /\ [][pc # "start" => FLe[ebest', ebest]]_vars

\* the working energy has risen above the best energy
BestBelowWorkingWitness ==
  /\ pc = "loop"
  /\ i > 0
  /\ sbest # 0
  /\ FLt[ebest, e]

====
